---- MODULE Spec2Model ----
(***************************************************************************)
(* Dr.Jit apply.cpp: the generic operation-dispatch engine.                *)
(*                                                                         *)
(* apply<Mode>() and apply_tensor<Mode>() are modelled as a state machine  *)
(* over a heap of Python objects.  One action stands for one straight-line *)
(* block of the C++ function (or one iteration of its fallback loop); a    *)
(* C++ exception moves control to the block's catch clause.                *)
(*                                                                         *)
(* Objects are heap cells addressed by their index in `heap` (object       *)
(* identity == index).  A flat array is [tp, elems]; a tensor is           *)
(* [tp, shape, arr] where arr is the identity of its flat array.           *)
(***************************************************************************)
EXTENDS Integers, Sequences, FiniteSets, TLC

\* Bounds of the model
MaxLen == 3        \* largest outer length of a flat dynamic operand
MaxExtent == 2     \* largest extent of one tensor dimension

\* Sentinel of ArraySupplement::shape[0] for dynamically sized flavors
DRJIT_DYNAMIC == -1

MaxItems == 2      \* most elements of one tuple, list or dynamic nested array
MaxArgs == 4       \* longest type list given to deepest<Ts...>
MaxDepth == 3      \* largest array depth of one type

Ranks == {0, 1, 2}                       \* tensor ranks that are explored
Lens == 0..MaxLen
Extents == 0..MaxExtent

VARIABLES
    heap,     \* Seq of objects; object identity is the index
    cargs,    \* the operands the caller of the top-level apply() passed
    sup,      \* the ArraySupplement entries that apply() reads
    frame,    \* which C++ function is executing: "apply", "apply_tensor", "nested"
    pc,       \* position inside that function
    mode,     \* template parameter Mode of the executing apply()
    op,       \* ArrayOp
    slot,     \* Slot argument (a Py_XX comparison code in RichCompare mode)
    args,     \* `args...` of the executing apply()
    o,        \* `nb::object o[]` of the executing apply()
    tp,       \* `nb::handle tp`
    impl,     \* `void *impl`
    rtype,    \* `result_type`
    result,   \* `nb::object result` (0 == invalid handle)
    move,     \* `bool move`
    l, i, lr, j,   \* fallback loop: lengths, fetch indices, result length, counter
    ret,      \* value returned by the function that returned last
    pyerr,    \* the Python error indicator: chain of messages, root cause first
    exc,      \* the C++ exception in flight
    tf,       \* the suspended/executing apply_tensor() frame
    heap0,    \* history: heap when the top-level apply() was called
    pre,      \* history: heap at the start of the fallback loop
    stat,     \* history: counters of allocations, fetches, nested calls, stores
    nodes,    \* traverse/traverse_pair/transform: Seq of tree nodes (identity = index)
    nodes0,   \* history: nodes when the walk was called
    roots,    \* the tree(s) the caller passed: <<h>> or <<h1, h2>>
    fn,       \* which walk is running: "traverse", "traverse_pair", "transform"
    leaf_fn,  \* what the callback of transform computes: "copy" or "negate"
    wpc,      \* position of the walk: "call", "resume", "unwind", "done", "idle"
    stack,    \* the activation records of the recursion, innermost last
    visits,   \* history: the visitor's invocations, in order
    werr,     \* the Python error indicator of the walk: chain, root cause first
    wexc,     \* the C++ exception in flight in the walk
    fault,    \* history: where and how the walk failed
    wret,     \* value returned by the call that returned last (0 == none yet)
    Ts,       \* deepest<Ts...>: the array depths of the argument types
    picked    \* deepest<Ts...>::type: position of the chosen type (0 == void)

apply_vars == <<heap, cargs, sup, frame, pc, mode, op, slot, args, o, tp, impl, rtype,
                result, move, l, i, lr, j, ret, pyerr, exc, tf, heap0, pre, stat>>

walk_vars == <<nodes, nodes0, roots, fn, leaf_fn, wpc, stack, visits, werr, wexc, fault,
               wret>>

deepest_vars == <<Ts, picked>>

vars == <<apply_vars, walk_vars, deepest_vars>>

-----------------------------------------------------------------------------
\* Array flavors

FlatTypes == {"ArrayXi", "ArrayXf", "ArrayXb"}
TensorTypes == {"TensorXi", "TensorXf", "TensorXb"}

is_tensor(t) == t \in TensorTypes

\* ArraySupplement::mask
mask_of(t) == IF is_tensor(t) THEN "TensorXb" ELSE "ArrayXb"

\* type of tensor_array(): the flat storage flavor of a tensor flavor
array_of(t) ==
    CASE t = "TensorXi" -> "ArrayXi"
      [] t = "TensorXf" -> "ArrayXf"
      [] t = "TensorXb" -> "ArrayXb"
      [] OTHER -> t

\* precedence of a flavor in type promotion
prec(t) ==
    CASE t \in {"ArrayXb", "TensorXb"} -> 0
      [] t \in {"ArrayXi", "TensorXi"} -> 1
      [] OTHER -> 2

Obj(t, e, s, a) == [tp |-> t, elems |-> e, shape |-> s, arr |-> a]

NoExc == [t |-> "none", what |-> <<>>]
NoRet == [kind |-> "none", id |-> 0]
NoTf == [active |-> FALSE, mode |-> "Normal", args |-> <<>>, o |-> <<>>,
         tp |-> "", move |-> FALSE, arrays |-> <<>>, shapes |-> <<>>,
         shape |-> <<>>]

N == Len(args)

-----------------------------------------------------------------------------
\* op_names[]
op_names == {"__neg__", "__sub__", "fma", "select", "__richcmp__"}

\* Slot is `const char *` (a function of the drjit module) for these
\* operations and `int` (a type slot) for the others
slot_is_name(p) == p \in {"fma", "select"}

CmpSlots == {"Py_LT", "Py_LE", "Py_EQ", "Py_NE", "Py_GT", "Py_GE"}

richcmp(s, a, b) ==
    CASE s = "Py_LT" -> a < b
      [] s = "Py_LE" -> a <= b
      [] s = "Py_EQ" -> a = b
      [] s = "Py_NE" -> a # b
      [] s = "Py_GT" -> a > b
      [] OTHER -> a >= b

\* The function applied recursively to one element of each operand
py_impl(p, s, v) ==
    CASE p = "__neg__" -> 0 - v[1]
      [] p = "__sub__" -> v[1] - v[2]
      [] p = "fma" -> v[1] * v[2] + v[3]
      [] p = "select" -> IF v[1] # 0 THEN v[2] ELSE v[3]
      [] OTHER -> IF richcmp(s, v[1], v[2]) THEN 1 ELSE 0

RECURSIVE maxv(_)
maxv(s) ==
    IF Len(s) = 1 THEN s[1]
    ELSE LET other == maxv(Tail(s)) IN IF other > s[1] THEN other ELSE s[1]

first(a) == a[1]

\* std::to_string of a size
to_string(n) == ToString(n)

RECURSIVE size_list(_, _, _)
size_list(sizes, n, k) ==
    IF k > n THEN <<>>
    ELSE <<to_string(sizes[k])>>
         \o (IF k + 1 < n THEN <<", ">> ELSE IF k + 1 = n THEN <<", and ">> ELSE <<>>)
         \o size_list(sizes, n, k + 1)

raise_incompatible_size_error(sizes, n) ==
    <<"invalid input array sizes (">> \o size_list(sizes, n, 1) \o <<")">>

-----------------------------------------------------------------------------
\* promote(): converts every operand that is not of the common flavor into a
\* freshly allocated object of that flavor.  In Select mode operand 0 is the
\* mask and takes no part in choosing the flavor.

cast(w, v) == IF w \in {"ArrayXb", "TensorXb"} THEN (IF v # 0 THEN 1 ELSE 0) ELSE v

promote_target(h, ops, select) ==
    LET idx == IF select THEN 2..Len(ops) ELSE 1..Len(ops)
        best == CHOOSE k \in idx :
                    /\ \A k2 \in idx : prec(h[ops[k2]].tp) <= prec(h[ops[k]].tp)
                    /\ \A k2 \in idx : prec(h[ops[k2]].tp) = prec(h[ops[k]].tp) => k <= k2
    IN  h[ops[best]].tp

RECURSIVE promote_from(_, _, _, _, _)
promote_from(h, ops, select, tgt, k) ==
    IF k > Len(ops) THEN [heap |-> h, o |-> ops]
    ELSE LET w == IF select /\ k = 1 THEN mask_of(tgt) ELSE tgt
             x == h[ops[k]]
         IN  IF x.tp = w THEN promote_from(h, ops, select, tgt, k + 1)
             ELSE IF is_tensor(w)
             THEN LET h1 == Append(h, Obj(array_of(w),
                                          [q \in 1..Len(h[x.arr].elems) |->
                                              cast(w, h[x.arr].elems[q])],
                                          <<>>, 0))
                      h2 == Append(h1, Obj(w, <<>>, x.shape, Len(h1)))
                  IN  promote_from(h2, [ops EXCEPT ![k] = Len(h2)], select, tgt, k + 1)
             ELSE LET h1 == Append(h, Obj(w, [q \in 1..Len(x.elems) |-> cast(w, x.elems[q])],
                                          <<>>, 0))
                  IN  promote_from(h1, [ops EXCEPT ![k] = Len(h1)], select, tgt, k + 1)

promote(h, ops, select) == promote_from(h, ops, select, promote_target(h, ops, select), 1)

-----------------------------------------------------------------------------
\* Initial states: one call of apply<Mode>(op, slot, args...)

\* the explicit instantiations of apply<>: <<Mode, arity, operation>>
Instantiations ==
    { <<"Normal", 1, "__neg__">>, <<"Normal", 2, "__sub__">>, <<"Normal", 3, "fma">>,
      <<"Select", 3, "select">>, <<"RichCompare", 2, "__richcmp__">>,
      <<"InPlace", 2, "__sub__">> }

KernelEntries == {"NATIVE", "DRJIT_OP_DEFAULT", "DRJIT_OP_NOT_IMPLEMENTED"}

\* is_matrix / is_complex / is_quaternion / type of the supplement
FlavorKinds ==
    { [is_matrix |-> FALSE, is_complex |-> FALSE, is_quaternion |-> FALSE, type |-> "Scalar"],
      [is_matrix |-> TRUE,  is_complex |-> FALSE, is_quaternion |-> FALSE, type |-> "Scalar"],
      [is_matrix |-> FALSE, is_complex |-> TRUE,  is_quaternion |-> FALSE, type |-> "Scalar"],
      [is_matrix |-> FALSE, is_complex |-> FALSE, is_quaternion |-> TRUE,  type |-> "Scalar"],
      [is_matrix |-> FALSE, is_complex |-> FALSE, is_quaternion |-> FALSE, type |-> "Pointer"] }

PlainKind == [is_matrix |-> FALSE, is_complex |-> FALSE, is_quaternion |-> FALSE,
              type |-> "Scalar"]

RECURSIVE Pow10(_)
Pow10(k) == IF k = 0 THEN 1 ELSE 10 * Pow10(k - 1)

\* contents of operand k: position q of operand k holds q * 10^(k-1), so a
\* result element tells which element of which operand went into it; a mask
\* alternates 1, 0, 1, ...
InitElems(t, k, n) ==
    [q \in 1..n |-> IF t \in {"ArrayXb", "TensorXb"} THEN q % 2 ELSE q * Pow10(k - 1)]

InitFlat ==
    \E inst \in Instantiations, kern \in KernelEntries,
       shape0 \in {DRJIT_DYNAMIC} \cup (1..MaxLen), alias \in BOOLEAN :
    \E ts \in [1..inst[2] -> {"ArrayXi", "ArrayXf"}], lens \in [1..inst[2] -> Lens],
       kind \in FlavorKinds, sl \in CmpSlots :
        /\ shape0 # DRJIT_DYNAMIC => \A k \in 1..inst[2] : lens[k] = shape0
        /\ inst[1] # "RichCompare" => kind = PlainKind /\ sl = "Py_LT"
        /\ alias => inst[2] = 2 /\ ts[1] = ts[2] /\ lens[1] = lens[2]
        /\ LET n == inst[2]
               ty(k) == IF inst[1] = "Select" /\ k = 1 THEN "ArrayXb" ELSE ts[k]
           IN
           /\ inst[1] = "Select" => ts[1] = "ArrayXi"
           /\ heap = [k \in 1..n |-> Obj(ty(k), InitElems(ty(k), k, lens[k]), <<>>, 0)]
           /\ cargs = IF alias THEN <<1, 1>> ELSE [k \in 1..n |-> k]
           /\ sup = [kern |-> kern, shape0 |-> shape0, kind |-> kind]
           /\ mode = inst[1]
           /\ op = inst[3]
           /\ slot = IF inst[1] = "RichCompare" THEN sl ELSE inst[3]

RECURSIVE prod(_)
prod(sh) == IF sh = <<>> THEN 1 ELSE sh[1] * prod(Tail(sh))

Shapes == UNION { [1..r -> Extents] : r \in Ranks }

\* operand k is the tensor 2k over the flat array 2k-1
InitTensor ==
    \E inst \in Instantiations, kern \in KernelEntries, alias \in BOOLEAN :
    \E ts \in [1..inst[2] -> {"TensorXi", "TensorXf"}], shs \in [1..inst[2] -> Shapes],
       sl \in CmpSlots :
        /\ inst[1] # "RichCompare" => sl = "Py_LT"
        /\ inst[1] \in {"Select", "RichCompare"} \/ inst[2] = 3 =>
               \A k \in 1..inst[2] : ts[k] = "TensorXf"
        /\ alias => inst[2] = 2 /\ ts[1] = ts[2] /\ shs[1] = shs[2]
        /\ LET n == inst[2]
               ty(k) == IF inst[1] = "Select" /\ k = 1 THEN "TensorXb" ELSE ts[k]
           IN
           /\ heap = [x \in 1..(2 * n) |->
                        LET k == (x + 1) \div 2
                        IN  IF x % 2 = 1
                            THEN Obj(array_of(ty(k)),
                                     InitElems(ty(k), k, prod(shs[k])), <<>>, 0)
                            ELSE Obj(ty(k), <<>>, shs[k], x - 1)]
           /\ cargs = IF alias THEN <<2, 2>> ELSE [k \in 1..n |-> 2 * k]
           /\ sup = [kern |-> kern, shape0 |-> DRJIT_DYNAMIC, kind |-> PlainKind]
           /\ mode = inst[1]
           /\ op = inst[3]
           /\ slot = IF inst[1] = "RichCompare" THEN sl ELSE inst[3]

\* no walk is running
NoFault == [kind |-> "none", what |-> <<>>, path |-> <<>>, nvisits |-> 0]

WalkIdle ==
    /\ nodes = <<>> /\ nodes0 = <<>> /\ roots = <<>>
    /\ fn = "none" /\ leaf_fn = "none" /\ wpc = "idle"
    /\ stack = <<>> /\ visits = <<>> /\ werr = <<>> /\ wexc = NoExc
    /\ fault = NoFault /\ wret = 0

\* no type list is being resolved
DeepestIdle == Ts = <<>> /\ picked = -1

Init ==
    /\ WalkIdle /\ DeepestIdle
    /\ InitFlat \/ InitTensor
    /\ frame = "apply"
    /\ pc = "enter"
    /\ args = cargs
    /\ o = cargs
    /\ tp = heap[cargs[1]].tp
    /\ impl = "none"
    /\ rtype = ""
    /\ result = 0
    /\ move = FALSE
    /\ l = <<>>
    /\ i = <<>>
    /\ lr = 0
    /\ j = 0
    /\ ret = NoRet
    /\ pyerr = <<>>
    /\ exc = NoExc
    /\ tf = NoTf
    /\ heap0 = heap
    /\ pre = heap
    /\ stat = [alloc |-> 0, item |-> 0, nested |-> 0, set_item |-> 0]

-----------------------------------------------------------------------------
\* Helpers shared by the actions

Alloc(h, x) == Append(h, x)

\* return from the executing apply(): to apply_tensor() when it is the nested
\* call, to the caller otherwise
Return(r) ==
    /\ ret' = r
    /\ IF frame = "nested"
       THEN frame' = "apply_tensor" /\ pc' = "t_wrap"
       ELSE frame' = frame /\ pc' = "done"

\* nb::detail::raise(): a std::exception carrying the message
Raise(what) ==
    /\ exc' = [t |-> "std", what |-> what]
    /\ pc' = IF frame = "apply_tensor" THEN "t_catch" ELSE "catch"

\* an nb::python_error: the callee has set the Python error indicator
RaisePython(cause) ==
    /\ exc' = [t |-> "python_error", what |-> <<>>]
    /\ pyerr' = Append(pyerr, <<cause>>)
    /\ pc' = IF frame = "apply_tensor" THEN "t_catch" ELSE "catch"

\* fault: the new error replaces the pending one
chain_error_drops_cause(err, msg) == <<msg>>

\* nb::chain_error(): the new error keeps the pending one as its cause
chain_error(err, msg) == Append(err, msg)

\* the message built by the catch clauses
catch_message(named, e, tpn, opn) ==
    IF e.t = "python_error"
    THEN IF named THEN <<"drjit.", opn, "(<", tpn, ">): failed (see above)!">>
         ELSE <<tpn, ".", opn, "(): failed (see above)!">>
    ELSE IF named THEN <<"drjit.", opn, "(<", tpn, ">): ">> \o e.what
         ELSE <<tpn, ".", opn, "(): ">> \o e.what

-----------------------------------------------------------------------------
\* apply(), lines 123-141: borrow the operands, promote, dispatch

types_differ(h, ops, t) == \E k \in 1..Len(ops) : h[ops[k]].tp # t

\* fault of line 140: the sentinel is not recognised
not_implemented_never(entry) == FALSE

\* line 140
not_implemented(entry) == entry = "DRJIT_OP_NOT_IMPLEMENTED"

\* lines 134-141, with the operands h/ops/t as they are after promotion
Dispatch(h, ops, t) ==
    /\ heap' = h
    /\ o' = ops
    /\ tp' = t
    /\ IF is_tensor(t)
       THEN /\ frame' = "apply_tensor"
            /\ pc' = "t_enter"
            /\ tf' = [NoTf EXCEPT !.active = TRUE, !.mode = mode, !.args = ops,
                                  !.o = ops, !.tp = h[ops[1]].tp]
            /\ UNCHANGED <<impl, ret>>
       ELSE /\ impl' = sup.kern
            /\ tf' = tf
            /\ IF not_implemented(sup.kern)
               THEN Return([kind |-> "NotImplemented", id |-> 0])
               ELSE pc' = "setup" /\ UNCHANGED <<frame, ret>>

Enter ==
    /\ UNCHANGED <<walk_vars, deepest_vars>>
    /\ pc = "enter"
    /\ IF types_differ(heap, o, tp)
       THEN \/ LET p == promote(heap, o, mode = "Select")
               IN  /\ Dispatch(p.heap, p.o, p.heap[p.o[IF mode = "Select" THEN 2 ELSE 1]].tp)
                   /\ UNCHANGED <<pyerr, exc>>
            \/ /\ RaisePython("promote(): type error")
               /\ UNCHANGED <<heap, o, tp, impl, tf, frame, ret>>
       ELSE Dispatch(heap, o, tp) /\ UNCHANGED <<pyerr, exc>>
    /\ UNCHANGED <<cargs, heap0, sup, mode, op, slot, args, rtype, result, move, l, i, lr, j,
                   pre, stat>>

-----------------------------------------------------------------------------
\* apply(), lines 143-170: accessors, result type, the `move` flag

\* fault of lines 147-149: the slot is not looked at
compare_forbidden_any_slot(k, s) ==
    \/ (k.is_matrix \/ k.is_complex \/ k.is_quaternion)
    \/ k.type = "Pointer"

\* lines 147-149
compare_forbidden(k, s) ==
    \/ (k.is_matrix \/ k.is_complex \/ k.is_quaternion) /\ (s # "Py_EQ" /\ s # "Py_NE")
    \/ k.type = "Pointer"

result_type(m, t) == IF m = "RichCompare" THEN mask_of(t) ELSE t

\* line 170
move_init(m, ops, as) == m = "InPlace" /\ ops[1] = first(as)

Setup ==
    /\ UNCHANGED <<walk_vars, deepest_vars>>
    /\ pc = "setup"
    /\ IF mode = "RichCompare" /\ compare_forbidden(sup.kind, slot)
       THEN /\ Raise(<<"Inequality comparisons are only permitted on ordinary arithmetic arrays.">>)
            /\ UNCHANGED <<rtype, move>>
       ELSE /\ rtype' = result_type(mode, tp)
            /\ move' = move_init(mode, o, args)
            /\ pc' = IF impl # "DRJIT_OP_DEFAULT" THEN "kernel" ELSE "fallback"
            /\ exc' = exc
    /\ UNCHANGED <<heap, cargs, heap0, sup, frame, mode, op, slot, args, o, tp, impl, result,
                   l, i, lr, j, ret, pyerr, tf, pre, stat>>

-----------------------------------------------------------------------------
\* apply(), lines 172-187: a native kernel exists

\* what a native kernel writes: the operation applied per lane, a lane count
\* of 1 being broadcast
kernel_lanes(h, ops) == maxv([k \in 1..Len(ops) |-> Len(h[ops[k]].elems)])

kernel_ok(h, ops) ==
    \A k \in 1..Len(ops) : Len(h[ops[k]].elems) \in {1, kernel_lanes(h, ops)}

kernel_output(h, ops, p, s) ==
    [q \in 1..kernel_lanes(h, ops) |->
        py_impl(p, s, [k \in 1..Len(ops) |->
                          LET e == h[ops[k]].elems IN IF Len(e) = 1 THEN e[1] ELSE e[q]])]

NativeKernel ==
    /\ UNCHANGED <<walk_vars, deepest_vars>>
    /\ pc = "kernel"
    /\ stat' = [stat EXCEPT !.alloc = @ + 1]
    /\ IF kernel_ok(heap, o)
       THEN /\ heap' = Alloc(heap, Obj(rtype, kernel_output(heap, o, op, slot), <<>>, 0))
            /\ result' = Len(heap) + 1
            /\ pc' = "finish"
            /\ exc' = exc
       ELSE /\ heap' = Alloc(heap, Obj(rtype, <<>>, <<>>, 0))
            /\ result' = Len(heap) + 1
            /\ Raise(<<"kernel: incompatible sizes">>)
    /\ UNCHANGED <<cargs, heap0, sup, frame, mode, op, slot, args, o, tp, impl, rtype, move,
                   l, i, lr, j, ret, pyerr, tf, pre>>

-----------------------------------------------------------------------------
\* apply(), lines 188-232: generic fallback, size and placement of the output

\* lines 193-195 and 204: the outer length of every operand
lengths(h, ops, shape0) ==
    [k \in 1..Len(ops) |-> IF shape0 # DRJIT_DYNAMIC THEN shape0 ELSE Len(h[ops[k]].elems)]

\* fault of line 207: only the first operand is checked
size_mismatch_first_only(ls, r) == ls[1] # r /\ ls[1] # 1

\* line 207
size_mismatch(ls, r) == \E k \in 1..Len(ls) : ls[k] # r /\ ls[k] # 1

\* fault of lines 197 and 210: the output is never placed into o[0]
reuse_never(m, shape0, r, ls) == FALSE

\* lines 197 and 210: the output is constructed directly into o[0]
reuse_first(m, shape0, r, ls) ==
    IF shape0 # DRJIT_DYNAMIC THEN m = "InPlace" ELSE m = "InPlace" /\ r = ls[1]

FallbackInit ==
    /\ UNCHANGED <<walk_vars, deepest_vars>>
    /\ pc = "fallback"
    /\ LET ls == lengths(heap, o, sup.shape0)
           r  == IF sup.shape0 # DRJIT_DYNAMIC THEN sup.shape0 ELSE maxv(ls)
       IN  /\ l' = ls
           /\ lr' = r
           /\ IF sup.shape0 = DRJIT_DYNAMIC /\ size_mismatch(ls, r)
              THEN /\ Raise(raise_incompatible_size_error(ls, Len(ls)))
                   /\ UNCHANGED <<heap, result, move, i, j, pre, stat>>
              ELSE /\ i' = [k \in 1..Len(ls) |-> 0]
                   /\ j' = 0
                   /\ pc' = IF 0 < r THEN "loop" ELSE "finish"
                   /\ exc' = exc
                   /\ IF reuse_first(mode, sup.shape0, r, ls)
                      THEN /\ result' = o[1]
                           /\ move' = FALSE
                           /\ heap' = heap
                           /\ stat' = stat
                      ELSE /\ heap' = Alloc(heap, Obj(rtype, [q \in 1..r |-> 0], <<>>, 0))
                           /\ result' = Len(heap) + 1
                           /\ move' = move
                           /\ stat' = [stat EXCEPT !.alloc = @ + 1]
                   /\ pre' = heap'
    /\ UNCHANGED <<cargs, heap0, sup, frame, mode, op, slot, args, o, tp, impl, rtype, ret,
                   pyerr, tf>>

-----------------------------------------------------------------------------
\* apply(), lines 234-265: one iteration of the fallback loop

\* faults of line 264: the index never advances / always advances
advance_stuck(lk, ik) == ik
advance_always(lk, ik) == ik + 1

\* line 264
advance(lk, ik) == ik + (IF lk = 1 THEN 0 ELSE 1)

\* item(o[k], i[k]) yields a valid object only inside the array
item_valid(h, ops, idx) ==
    \A k \in 1..Len(ops) : idx[k] >= 0 /\ idx[k] < Len(h[ops[k]].elems)

\* set_item(result, j, vr)
set_item(h, r, at, v) == [h EXCEPT ![r].elems[at + 1] = v]

\* where control goes after the body of iteration jj
loop_next(jj, r) == IF jj + 1 < r THEN "loop" ELSE "finish"

LoopIter ==
    /\ UNCHANGED <<walk_vars, deepest_vars>>
    /\ pc = "loop"
    /\ j < lr
    /\ \E fail \in {"none", "item", "nested", "set_item"} :
        LET fetched == item_valid(heap, o, i) /\ fail # "item"
            v == [k \in 1..N |-> heap[o[k]].elems[i[k] + 1]]
        IN  IF ~fetched
            THEN /\ pyerr' = Append(pyerr, <<"item(): IndexError">>)
                 /\ Raise(<<"Item retrival failed!">>)
                 /\ stat' = [stat EXCEPT !.item = @ + 1]
                 /\ UNCHANGED <<heap, i, j>>
            ELSE IF fail = "nested"
            THEN /\ pyerr' = Append(pyerr, <<"nested operation: error">>)
                 /\ Raise(<<"Nested operation failed!">>)
                 /\ stat' = [stat EXCEPT !.item = @ + 1, !.nested = @ + 1]
                 /\ UNCHANGED <<heap, i, j>>
            ELSE IF fail = "set_item" \/ j >= Len(heap[result].elems)
            THEN /\ pyerr' = Append(pyerr, <<"set_item(): error">>)
                 /\ Raise(<<"Item assignment failed!">>)
                 /\ stat' = [stat EXCEPT !.item = @ + 1, !.nested = @ + 1,
                                         !.set_item = @ + 1]
                 /\ UNCHANGED <<heap, i, j>>
            ELSE /\ heap' = set_item(heap, result, j, py_impl(op, slot, v))
                 /\ i' = [k \in 1..N |-> advance(l[k], i[k])]
                 /\ j' = j + 1
                 /\ pc' = loop_next(j, lr)
                 /\ stat' = [stat EXCEPT !.item = @ + 1, !.nested = @ + 1,
                                         !.set_item = @ + 1]
                 /\ UNCHANGED <<pyerr, exc>>
    /\ UNCHANGED <<cargs, heap0, sup, frame, mode, op, slot, args, o, tp, impl, rtype, result,
                   move, l, lr, ret, tf, pre>>

-----------------------------------------------------------------------------
\* apply(), lines 268-275: hand the result to the caller

\* fault of line 271: the move-assignment does nothing
inst_replace_move_skipped(h, dst, src) == h

\* nb::inst_replace_move(dst, src): dst takes over the contents of src
inst_replace_move(h, dst, src) ==
    IF dst = src THEN h
    ELSE [h EXCEPT ![dst] = h[src], ![src] = Obj(h[src].tp, <<>>, <<>>, 0)]

\* fault of lines 270-275: the separate result object is returned
returned_result(mv, ops, res) == res

\* lines 270-275: the object that is returned
returned(mv, ops, res) == IF mv THEN ops[1] ELSE res

Finish ==
    /\ UNCHANGED <<walk_vars, deepest_vars>>
    /\ pc = "finish"
    /\ heap' = IF move THEN inst_replace_move(heap, o[1], result) ELSE heap
    /\ result' = returned(move, o, result)
    /\ Return([kind |-> "object", id |-> returned(move, o, result)])
    /\ UNCHANGED <<cargs, heap0, sup, mode, op, slot, args, o, tp, impl, rtype, move,
                   l, i, lr, j, pyerr, exc, tf, pre, stat>>

-----------------------------------------------------------------------------
\* apply(), lines 276-295: the catch clauses

Catch ==
    /\ UNCHANGED <<walk_vars, deepest_vars>>
    /\ pc = "catch"
    /\ pyerr' = chain_error(pyerr, catch_message(slot_is_name(op), exc, tp, op))
    /\ exc' = NoExc
    /\ Return([kind |-> "nullptr", id |-> 0])
    /\ UNCHANGED <<heap, cargs, heap0, sup, mode, op, slot, args, o, tp, impl, rtype, result,
                   move, l, i, lr, j, tf, pre, stat>>

-----------------------------------------------------------------------------
\* tensor_broadcast(), lines 298-335

\* the C++ quotient a / b; q is what the build yields for b == 0
udiv(a, b, q) == IF b = 0 THEN q ELSE a \div b

\* line 302: nothing to do
broadcast_skipped(src, dst) == Len(src) = 0 \/ src = dst

\* line 322 evaluates size / shape_dst[i] for every dimension
divides_by_zero(src, dst) ==
    ~broadcast_skipped(src, dst) /\ \E d \in 1..Len(dst) : dst[d] = 0

\* line 327
wrap_index(x, size, size_next) == (x % size_next) + (x \div size) * size_next

\* lines 321-331, from dimension d on
RECURSIVE broadcast_index(_, _, _, _, _, _)
broadcast_index(index, size, src, dst, d, q) ==
    IF d > Len(src) THEN index
    ELSE LET size_next == udiv(size, dst[d], q)
             index2 == IF src[d] = 1 /\ dst[d] # 1
                       THEN [t \in 1..Len(index) |-> wrap_index(index[t], size, size_next)]
                       ELSE index
         IN  broadcast_index(index2, size_next, src, dst, d + 1, q)

\* arange(index_type, 0, size, 1)
arange(size) == [t \in 1..size |-> t - 1]

\* gather(type, array, index, True)
gather(elems, index) ==
    [t \in 1..Len(index) |->
        IF index[t] >= 0 /\ index[t] < Len(elems) THEN elems[index[t] + 1] ELSE 0 - 1]

\* the elements `array` holds when tensor_broadcast() returns
tensor_broadcast(elems, src, dst, q) ==
    IF broadcast_skipped(src, dst) THEN elems
    ELSE gather(elems, broadcast_index(arange(prod(dst)), prod(dst), src, dst, 1, q))

-----------------------------------------------------------------------------
\* apply_tensor(), lines 343-366

TensorEnter ==
    /\ UNCHANGED <<walk_vars, deepest_vars>>
    /\ pc = "t_enter"
    /\ LET p == IF types_differ(heap, tf.o, tf.tp)
                THEN promote(heap, tf.o, tf.mode = "Select")
                ELSE [heap |-> heap, o |-> tf.o]
           t == p.heap[p.o[IF tf.mode = "Select" /\ types_differ(heap, tf.o, tf.tp)
                           THEN 2 ELSE 1]].tp
       IN  /\ heap' = p.heap
           /\ tf' = [tf EXCEPT !.o = p.o, !.tp = t,
                               !.move = move_init(tf.mode, p.o, tf.args),
                               !.arrays = [k \in 1..Len(p.o) |-> p.heap[p.o[k]].arr],
                               !.shapes = [k \in 1..Len(p.o) |-> p.heap[p.o[k]].shape]]
    /\ pc' = "t_shapes"
    /\ UNCHANGED <<cargs, heap0, sup, frame, mode, op, slot, args, o, tp, impl, rtype, result,
                   move, l, i, lr, j, ret, pyerr, exc, pre, stat>>

-----------------------------------------------------------------------------
\* apply_tensor(), lines 368-399: the common shape

ndims(shapes) == [k \in 1..Len(shapes) |-> Len(shapes[k])]

\* lines 372-375
rank_mismatch(shapes) ==
    /\ Len(shapes) > 1
    /\ \E k \in 1..Len(shapes) :
          maxv(ndims(shapes)) # Len(shapes[k]) /\ Len(shapes[k]) # 0

\* line 381
shape_i(shapes, d) ==
    [k \in 1..Len(shapes) |-> IF Len(shapes[k]) # 0 THEN shapes[k][d] ELSE 1]

\* line 383
extent_mismatch(shapes, d) ==
    \E k \in 1..Len(shapes) :
        /\ shape_i(shapes, d)[k] # maxv(shape_i(shapes, d))
        /\ shape_i(shapes, d)[k] # 1
        /\ Len(shapes[k]) # 0

compatible(shapes) ==
    /\ ~rank_mismatch(shapes)
    /\ \A d \in 1..maxv(ndims(shapes)) : ~extent_mismatch(shapes, d)

\* lines 377-388 when no mismatch is found
common_shape(shapes) ==
    [d \in 1..maxv(ndims(shapes)) |-> maxv(shape_i(shapes, d))]

\* nb::str(cast_shape(shape)): the str() of a Python tuple
RECURSIVE shape_items(_, _)
shape_items(sh, d) ==
    IF d > Len(sh) THEN <<>>
    ELSE <<to_string(sh[d])>>
         \o (IF d < Len(sh) THEN <<", ">> ELSE IF Len(sh) = 1 THEN <<",">> ELSE <<>>)
         \o shape_items(sh, d + 1)

shape_str(sh) == <<"(">> \o shape_items(sh, 1) \o <<")">>

\* lines 392-398
incompatible_shapes_message(shapes) ==
    IF Len(shapes) = 2
    THEN <<"Operands have incompatible shapes: ">> \o shape_str(shapes[1])
         \o <<" and ">> \o shape_str(shapes[2]) \o <<".">>
    ELSE <<"Operands have incompatible shapes: ">> \o shape_str(shapes[1])
         \o <<", ">> \o shape_str(shapes[2]) \o <<", and ">> \o shape_str(shapes[3])
         \o <<".">>

TensorShapes ==
    /\ UNCHANGED <<walk_vars, deepest_vars>>
    /\ pc = "t_shapes"
    /\ IF ~compatible(tf.shapes)
       THEN /\ Raise(incompatible_shapes_message(tf.shapes))
            /\ tf' = tf
       ELSE /\ tf' = [tf EXCEPT !.shape = common_shape(tf.shapes)]
            /\ pc' = IF Len(tf.o) > 1 THEN "t_bcast" ELSE "t_call"
            /\ exc' = exc
    /\ UNCHANGED <<heap, cargs, heap0, sup, frame, mode, op, slot, args, o, tp, impl, rtype,
                   result, move, l, i, lr, j, ret, pyerr, pre, stat>>

-----------------------------------------------------------------------------
\* apply_tensor(), lines 401-404: broadcast every operand to the common shape

RECURSIVE broadcast_from(_, _, _, _, _, _)
broadcast_from(h, arrays, shapes, dst, k, q) ==
    IF k > Len(arrays) THEN [heap |-> h, arrays |-> arrays]
    ELSE IF broadcast_skipped(shapes[k], dst)
    THEN broadcast_from(h, arrays, shapes, dst, k + 1, q)
    ELSE LET h1 == Alloc(h, Obj(h[arrays[k]].tp,
                                tensor_broadcast(h[arrays[k]].elems, shapes[k], dst, q),
                                <<>>, 0))
         IN  broadcast_from(h1, [arrays EXCEPT ![k] = Len(h1)], shapes, dst, k + 1, q)

TensorBroadcast ==
    /\ UNCHANGED <<walk_vars, deepest_vars>>
    /\ pc = "t_bcast"
    /\ \/ \E q \in {0, 1} :
            LET b == broadcast_from(heap, tf.arrays, tf.shapes, tf.shape, 1, q)
            IN  /\ heap' = b.heap
                /\ tf' = [tf EXCEPT !.arrays = b.arrays]
                /\ pc' = "t_call"
       \/ /\ \E k \in 1..Len(tf.shapes) : divides_by_zero(tf.shapes[k], tf.shape)
          /\ pc' = "crashed"
          /\ UNCHANGED <<heap, tf>>
    /\ UNCHANGED <<cargs, heap0, sup, frame, mode, op, slot, args, o, tp, impl, rtype,
                   result, move, l, i, lr, j, ret, pyerr, exc, pre, stat>>

-----------------------------------------------------------------------------
\* apply_tensor(), lines 406-409: the flat apply() on the underlying arrays

\* fault of line 406: the nested call keeps the outer mode
NestedMode_kept(m) == m

\* line 406
NestedMode(m) == IF m = "InPlace" THEN "Normal" ELSE m

TensorCall ==
    /\ UNCHANGED <<walk_vars, deepest_vars>>
    /\ pc = "t_call"
    /\ frame' = "nested"
    /\ pc' = "enter"
    /\ mode' = NestedMode(tf.mode)
    /\ args' = tf.arrays
    /\ o' = tf.arrays
    /\ tp' = heap[tf.arrays[1]].tp
    /\ impl' = "none"
    /\ rtype' = ""
    /\ result' = 0
    /\ move' = FALSE
    /\ l' = <<>>
    /\ i' = <<>>
    /\ lr' = 0
    /\ j' = 0
    /\ UNCHANGED <<heap, cargs, heap0, sup, op, slot, ret, pyerr, exc, tf, pre, stat>>

-----------------------------------------------------------------------------
\* apply_tensor(), lines 411-425: wrap the flat result into a tensor

\* result_type(result_array, cast_shape(shape)): the tensor constructor takes
\* a flat array with as many elements as the shape has
tensor_ctor_ok(h, r, sh) == r.kind = "object" /\ Len(h[r.id].elems) = prod(sh)

TensorReturn(r) ==
    /\ ret' = r
    /\ frame' = "apply"
    /\ pc' = "done"

TensorWrap ==
    /\ UNCHANGED <<walk_vars, deepest_vars>>
    /\ pc = "t_wrap"
    /\ IF ret.kind = "nullptr"
       THEN /\ Raise(<<"Operation on underlying array failed.">>)
            /\ UNCHANGED <<heap, frame, ret, pyerr, stat>>
       ELSE IF ~tensor_ctor_ok(heap, ret, tf.shape)
       THEN /\ RaisePython("Tensor.__init__(): error")
            /\ UNCHANGED <<heap, frame, ret, stat>>
       ELSE LET h1 == Alloc(heap, Obj(result_type(tf.mode, tf.tp), <<>>, tf.shape, ret.id))
                res == Len(h1)
            IN  /\ heap' = IF tf.move THEN inst_replace_move(h1, tf.o[1], res) ELSE h1
                /\ TensorReturn([kind |-> "object", id |-> returned(tf.move, tf.o, res)])
                /\ stat' = [stat EXCEPT !.alloc = @ + 1]
                /\ UNCHANGED <<pyerr, exc>>
    /\ UNCHANGED <<cargs, heap0, sup, mode, op, slot, args, o, tp, impl, rtype, result, move,
                   l, i, lr, j, tf, pre>>

-----------------------------------------------------------------------------
\* apply_tensor(), lines 426-445: the catch clauses

tensor_catch_message(named, e, tpn, opn) ==
    IF e.t = "python_error"
    THEN IF named THEN <<"drjit.", opn, "(<", tpn, ">): failed (see above).">>
         ELSE <<tpn, ".", opn, "(): failed (see above).">>
    ELSE IF named THEN <<"drjit.", opn, "(<", tpn, ">): ">> \o e.what
         ELSE <<tpn, ".", opn, "(): ">> \o e.what

TensorCatch ==
    /\ UNCHANGED <<walk_vars, deepest_vars>>
    /\ pc = "t_catch"
    /\ pyerr' = chain_error(pyerr, tensor_catch_message(slot_is_name(op), exc, tf.tp, op))
    /\ exc' = NoExc
    /\ TensorReturn([kind |-> "nullptr", id |-> 0])
    /\ UNCHANGED <<heap, cargs, heap0, sup, mode, op, slot, args, o, tp, impl, rtype, result,
                   move, l, i, lr, j, tf, pre, stat>>

-----------------------------------------------------------------------------
Next ==
    \/ Enter
    \/ Setup
    \/ NativeKernel
    \/ FallbackInit
    \/ LoopIter
    \/ Finish
    \/ Catch
    \/ TensorEnter
    \/ TensorShapes
    \/ TensorBroadcast
    \/ TensorCall
    \/ TensorWrap
    \/ TensorCatch

Spec == Init /\ [][Next]_vars

-----------------------------------------------------------------------------
\* Vocabulary of the properties

Dynamic == sup.shape0 = DRJIT_DYNAMIC
Fallback == impl = "DRJIT_OP_DEFAULT"

\* a flat apply() has just handed an object to its caller
FlatReturned ==
    /\ ret.kind = "object"
    /\ pc = "t_wrap" \/ (pc = "done" /\ ~tf.active)

\* the mode and the operands of the top-level apply()
TopMode == IF tf.active THEN tf.mode ELSE mode
TopO == IF tf.active THEN tf.args ELSE o

\* element q (1-based) of operand k as the fallback loop found it, a single
\* element standing for every position
Operand(k, q) ==
    LET e == pre[o[k]].elems IN IF Len(e) = 1 THEN e[1] ELSE e[q]

Contains(msg, token) == \E x \in 1..Len(msg) : msg[x] = token

SizeErrorText(msg) == Contains(msg, "invalid input array sizes (")

-----------------------------------------------------------------------------
\* C1: in the generic fallback path, operands whose outer lengths all equal
\* some L >= 1 give a result of outer length L whose element j is the nested
\* operation applied to element j of every operand; this holds when the loop
\* has finished and for the object handed to the caller.
C1_FallbackElementwise ==
    (/\ Fallback
     /\ pc = "finish" \/ FlatReturned
     /\ \A k \in 1..N : l[k] = l[1]
     /\ l[1] >= 1)
    => LET r == IF pc = "finish" THEN result ELSE ret.id
       IN  /\ Len(heap[r].elems) = l[1]
           /\ \A q \in 1..l[1] :
                 heap[r].elems[q] = py_impl(op, slot, [k \in 1..N |-> pre[o[k]].elems[q]])

\* an in-place subtraction of two operands of length >= 2 has returned
C1_Witness ==
    /\ Fallback /\ FlatReturned /\ pc = "done"
    /\ mode = "InPlace" /\ N = 2 /\ l[1] = l[2] /\ l[1] >= 2

\* C2: in the fallback loop an operand of outer length 1 is fetched at index 0
\* in every iteration and every other operand at index j, every fetch index
\* staying below the operand's own length; the result is the one obtained
\* with the length-1 operand replicated.
C2_BroadcastIndex ==
    /\ (pc = "loop" /\ Dynamic)
       => \A k \in 1..N :
             /\ i[k] = IF l[k] = 1 THEN 0 ELSE j
             /\ i[k] < Len(heap[o[k]].elems)
    /\ (Fallback /\ Dynamic /\ FlatReturned)
       => /\ Len(heap[ret.id].elems) = lr
          /\ \A q \in 1..lr :
                heap[ret.id].elems[q] = py_impl(op, slot, [k \in 1..N |-> Operand(k, q)])

\* the loop is past its first iteration with a length-1 first operand that is
\* combined with a longer one
C2_Witness ==
    /\ pc = "loop" /\ Dynamic /\ j >= 2
    /\ l[1] = 1 /\ lr > 1 /\ \E k \in 1..N : l[k] = lr

\* C3: in the fallback path of a dynamic flavor the loop is entered only if
\* every operand length is 1 or the maximum length, and then the result has
\* the maximum length; otherwise the call fails with the incompatible-size
\* message, which holds the length of every operand, before any element is
\* fetched, computed or stored.
C3_SizeCheck ==
    /\ (Fallback /\ Dynamic /\ pc \in {"loop", "finish"})
       => LET len(k) == Len(pre[o[k]].elems)
              m == maxv([k \in 1..N |-> len(k)])
          IN  /\ \A k \in 1..N : len(k) = 1 \/ len(k) = m
              /\ lr = m
              /\ Len(heap[result].elems) = m
    /\ (Fallback /\ Dynamic /\ FlatReturned)
       => Len(heap[ret.id].elems) = maxv([k \in 1..N |-> Len(pre[o[k]].elems)])
    /\ (pc = "catch" /\ SizeErrorText(exc.what))
       => LET len(k) == Len(heap[o[k]].elems)
              m == maxv([k \in 1..N |-> len(k)])
          IN  /\ \E k \in 1..N : len(k) # 1 /\ len(k) # m
              /\ \A k \in 1..N : Contains(exc.what, to_string(len(k)))
              /\ stat.item = 0 /\ stat.nested = 0 /\ stat.set_item = 0
              /\ stat.alloc = 0
    /\ (pyerr # <<>> /\ SizeErrorText(pyerr[1]))
       => /\ ret.kind = "nullptr"
          /\ stat.item = 0 /\ stat.nested = 0 /\ stat.set_item = 0
          /\ \A k \in 1..N : Contains(pyerr[1], to_string(Len(heap[o[k]].elems)))

\* lengths 2 and 3 were rejected and the error has reached the caller
C3_Witness ==
    /\ pc = "done" /\ ret.kind = "nullptr" /\ N = 2
    /\ Len(heap[o[1]].elems) = 2 /\ Len(heap[o[2]].elems) = 3
    /\ pyerr # <<>> /\ SizeErrorText(pyerr[1])
    /\ Contains(pyerr[1], "2") /\ Contains(pyerr[1], "3")

-----------------------------------------------------------------------------
\* Vocabulary of the tensor properties

ShapeErrorText(msg) == Contains(msg, "Operands have incompatible shapes: ")

\* the tokens of `part` occur in `msg` as one contiguous run
ContainsRun(msg, part) ==
    \E x \in 0..(Len(msg) - Len(part)) : \A y \in 1..Len(part) : msg[x + y] = part[y]

\* the operands of dimension d (1-based), and their largest extent there
HavingDim(shapes, d) == {k \in 1..Len(shapes) : Len(shapes[k]) >= d}
MaxExtentAt(shapes, d) ==
    CHOOSE e \in {shapes[k][d] : k \in HavingDim(shapes, d)} :
        \A k \in HavingDim(shapes, d) : shapes[k][d] <= e

MaxRankOf(shapes) ==
    CHOOSE r \in {Len(shapes[k]) : k \in 1..Len(shapes)} :
        \A k \in 1..Len(shapes) : Len(shapes[k]) <= r

\* incompatibility as the specification words it: two unequal non-zero
\* ranks, or an extent that is neither 1 nor the largest extent among the
\* operands that have the dimension
StatedIncompatible(shapes) ==
    \/ \E a, b \in 1..Len(shapes) :
          Len(shapes[a]) # 0 /\ Len(shapes[b]) # 0 /\ Len(shapes[a]) # Len(shapes[b])
    \/ \E d \in 1..MaxRankOf(shapes) : \E k \in HavingDim(shapes, d) :
          shapes[k][d] # 1 /\ shapes[k][d] # MaxExtentAt(shapes, d)

StatedShape(shapes) == [d \in 1..MaxRankOf(shapes) |-> MaxExtentAt(shapes, d)]

\* row-major position (0-based) of a multi-index in a tensor of shape sh, the
\* index being taken as 0 wherever the extent is 1
RECURSIVE FlatPos(_, _, _, _)
FlatPos(idx, sh, d, acc) ==
    IF d > Len(sh) THEN acc
    ELSE FlatPos(idx, sh, d + 1, acc * sh[d] + (IF sh[d] = 1 THEN 0 ELSE idx[d]))

MultiIndices(sh) ==
    {idx \in [1..Len(sh) -> 0..MaxExtent] : \A d \in 1..Len(sh) : idx[d] < sh[d]}

\* element of the caller's tensor operand k at a multi-index of the common shape
TensorOperand(k, idx) ==
    LET t == heap0[cargs[k]]
    IN  heap0[t.arr].elems[FlatPos(idx, t.shape, 1, 0) + 1]

PastShapeCheck == tf.active /\ pc \notin {"enter", "t_enter", "t_shapes"}

\* what the tensor path computes when it returns: the common shape and, at
\* every multi-index, the operation on the operands' broadcast elements
TensorResultAsStated ==
    (tf.active /\ pc = "done" /\ ret.kind = "object")
    => LET t == heap[ret.id]
       IN  /\ t.shape = StatedShape(tf.shapes)
           /\ Len(heap[t.arr].elems) = prod(t.shape)
           /\ \A idx \in MultiIndices(t.shape) :
                 heap[t.arr].elems[FlatPos(idx, t.shape, 1, 0) + 1]
                    = py_impl(op, slot,
                              [k \in 1..Len(tf.shapes) |-> TensorOperand(k, idx)])

\* C4 (as stated): tensor operands of compatible shapes always yield a tensor
\* of the common shape whose element at every multi-index is the operation on
\* the operands' elements there, index 0 standing in where an operand's
\* extent is 1; in particular the call does not die while broadcasting.
C4_AsStated ==
    (PastShapeCheck /\ ~StatedIncompatible(tf.shapes))
    => /\ pc # "crashed"
       /\ TensorResultAsStated

\* C5 (as stated): the tensor path raises the incompatible-shape error exactly
\* when two operands have unequal non-zero ranks or some extent is neither 1
\* nor the largest extent among the operands having that dimension; the
\* message lists every operand's shape and is raised before any operand is
\* broadcast and before the flat operation runs.
C5_AsStated ==
    /\ (PastShapeCheck /\ frame = "apply_tensor" /\ pc \in {"t_bcast", "t_call"})
       => ~StatedIncompatible(tf.shapes)
    /\ (pc = "t_catch" /\ ShapeErrorText(exc.what))
       => /\ StatedIncompatible(tf.shapes)
          /\ \A k \in 1..Len(tf.shapes) : ContainsRun(exc.what, shape_str(tf.shapes[k]))
          /\ tf.arrays = [k \in 1..Len(tf.o) |-> heap[tf.o[k]].arr]
          /\ stat.alloc = 0 /\ stat.item = 0 /\ stat.nested = 0 /\ stat.set_item = 0

-----------------------------------------------------------------------------
\* Vocabulary of the in-place and failure properties

\* element q of the caller's flat operand k, a single element standing for
\* every position
CallerOperand(k, q) ==
    LET e == heap0[cargs[k]].elems IN IF Len(e) = 1 THEN e[1] ELSE e[q]

\* the elements a flat call on the caller's operands has to produce
ExpectedFlat ==
    [q \in 1..maxv([k \in 1..Len(cargs) |-> Len(heap0[cargs[k]].elems)]) |->
        py_impl(op, slot, [k \in 1..Len(cargs) |-> CallerOperand(k, q)])]

\* type promotion replaced the first operand by a converted copy
FirstConverted == TopO[1] # cargs[1]

InPlaceReturned == pc = "done" /\ TopMode = "InPlace" /\ ret.kind = "object"

NoStat == [alloc |-> 0, item |-> 0, nested |-> 0, set_item |-> 0]

\* C6 (as stated): in InPlace mode, whenever the first operand's outer length
\* equals the result length, no separate result object is allocated and the
\* returned object is the first operand.
C6_AsStated ==
    (/\ InPlaceReturned /\ ~tf.active
     /\ Len(heap0[cargs[1]].elems) = Len(heap[ret.id].elems))
    => stat.alloc = 0 /\ ret.id = cargs[1]

\* C6 (amended): in InPlace mode on the generic fallback path, whenever the
\* first operand's outer length equals the result length, the output is built
\* in o[0] itself (the first operand as apply holds it) with no result object
\* allocated, and o[0] is the object returned.  With a native kernel one
\* separate result object is always allocated.
C6_FallbackReusesFirst ==
    /\ (/\ mode = "InPlace" /\ ~tf.active /\ Fallback
        /\ pc \in {"loop", "finish"} \/ InPlaceReturned
        /\ Len(pre[o[1]].elems) = lr)
       => /\ stat.alloc = 0
          /\ result = o[1]
          /\ InPlaceReturned => ret.id = o[1]
    /\ (InPlaceReturned /\ ~tf.active /\ ~Fallback) => stat.alloc = 1

\* an in-place call on the fallback path returned the caller's first operand,
\* three elements long, without any allocation
C6_Witness ==
    /\ InPlaceReturned /\ ~tf.active /\ Fallback /\ Dynamic
    /\ lr = 3 /\ stat.alloc = 0 /\ ret.id = cargs[1]
    /\ heap[cargs[1]].elems = ExpectedFlat

LoopRaiseTexts == {"Item retrival failed!", "Nested operation failed!",
                   "Item assignment failed!"}

\* the errors set by the failing fetch, nested operation or store
LoopRootCauses == { <<"item(): IndexError">>, <<"nested operation: error">>,
                    <<"set_item(): error">> }

\* an iteration of the fallback loop has failed
LoopFailed ==
    \/ pc = "catch" /\ \E t \in LoopRaiseTexts : Contains(exc.what, t)
    \/ \E x \in 1..Len(pyerr) : \E t \in LoopRaiseTexts : Contains(pyerr[x], t)

\* C8: once a fetch, the nested operation or a store has failed at index j of
\* the fallback loop, no further iteration runs (the failing iteration's
\* fetch stays the last one), the call returns a failure and never an object,
\* and the error chain starts with the original failure.
C8_LoopFailureAborts ==
    LoopFailed
    => /\ pc \in {"catch", "t_wrap", "t_catch", "done"}
       /\ stat.item = j + 1
       /\ stat.nested <= j + 1 /\ stat.set_item <= j + 1
       /\ ret.kind = IF pc = "catch" THEN "none" ELSE "nullptr"
       /\ pyerr # <<>> /\ pyerr[1] \in LoopRootCauses
       /\ pc # "catch" => /\ Len(pyerr) >= 2
                          /\ \E t \in LoopRaiseTexts : Contains(pyerr[2], t)

\* the loop failed after at least one element had been stored, and the
\* failure has reached the caller
C8_Witness ==
    /\ LoopFailed /\ pc = "done" /\ j >= 1 /\ stat.set_item >= 1
    /\ ret.kind = "nullptr" /\ Len(pyerr) >= 2

\* C9 (as stated): in InPlace mode the first operand is mutated only after
\* all reads have completed, so at every point of the call it holds either
\* its old contents or the complete result, never a mixture.
C9_AsStated ==
    (TopMode = "InPlace" /\ ~tf.active)
    => \/ heap[cargs[1]].elems = heap0[cargs[1]].elems
       \/ heap[cargs[1]].elems = ExpectedFlat

\* C10: when the kernel table of the non-tensor common flavor marks the
\* operation as not implemented, apply returns NotImplemented with no error
\* set, no result allocated, no element fetched, computed or stored, and
\* every object the caller passed unmodified.
C10_NotImplemented ==
    /\ (ret.kind = "NotImplemented" /\ pc \in {"done", "t_wrap"})
       => /\ pyerr = <<>> /\ exc = NoExc
          /\ stat = NoStat /\ result = 0
          /\ \A x \in 1..Len(heap0) : heap[x] = heap0[x]
    /\ (/\ sup.kern = "DRJIT_OP_NOT_IMPLEMENTED"
        /\ frame = "apply" /\ ~tf.active /\ pc # "enter")
       => \/ pc = "done" /\ ret.kind = "NotImplemented"
          \/ pyerr # <<>> /\ pyerr[1] = <<"promote(): type error">>

\* an in-place call on a flavor without the operation has returned
\* NotImplemented after promotion had converted an operand
C10_Witness ==
    /\ pc = "done" /\ ret.kind = "NotImplemented" /\ mode = "InPlace"
    /\ ~tf.active /\ Len(heap) > Len(heap0)

-----------------------------------------------------------------------------
\* Vocabulary of the comparison properties

OrderingSlots == {"Py_LT", "Py_LE", "Py_GT", "Py_GE"}
EqualitySlots == {"Py_EQ", "Py_NE"}

MatrixLike(k) == k.is_matrix \/ k.is_complex \/ k.is_quaternion

RestrictionText ==
    "Inequality comparisons are only permitted on ordinary arithmetic arrays."

\* the comparison-restriction error has been raised
RestrictionReported ==
    \/ Contains(exc.what, RestrictionText)
    \/ \E x \in 1..Len(pyerr) : Contains(pyerr[x], RestrictionText)

PromotionFailed == pyerr # <<>> /\ pyerr[1] = <<"promote(): type error">>

\* a flat comparison call has ended
CompareDone == pc = "done" /\ ~tf.active /\ mode = "RichCompare"

\* C11 (as stated): an ordering comparison on a matrix, complex or quaternion
\* flavor fails with an error; == and != on such a flavor never report the
\* restriction and a result they return is of the flavor's mask type.
C11_AsStated ==
    /\ (CompareDone /\ MatrixLike(sup.kind) /\ slot \in OrderingSlots)
       => ret.kind = "nullptr" /\ pyerr # <<>>
    /\ (CompareDone /\ MatrixLike(sup.kind) /\ slot \in EqualitySlots
        /\ ret.kind = "object")
       => heap[ret.id].tp = mask_of(tp)

\* C11 (amended): an ordering comparison on a matrix, complex or quaternion
\* flavor never yields a result: if the kernel table marks the operation as
\* not implemented it returns NotImplemented with no error set, otherwise it
\* fails with the restriction error before anything is allocated or fetched.
\* == and != on such a flavor never report the restriction; they fail only
\* for another reason (promotion, sizes, kernel or element failure) and
\* otherwise return a result of the flavor's mask type holding the
\* elementwise comparison.
C11_OrderingRestricted ==
    /\ (CompareDone /\ MatrixLike(sup.kind) /\ slot \in OrderingSlots)
       => /\ ret.kind # "object"
          /\ ~PromotionFailed
             => IF sup.kern = "DRJIT_OP_NOT_IMPLEMENTED"
                THEN ret.kind = "NotImplemented" /\ pyerr = <<>>
                ELSE /\ ret.kind = "nullptr"
                     /\ Len(pyerr) = 1 /\ Contains(pyerr[1], RestrictionText)
                     /\ stat = NoStat /\ result = 0
    /\ (mode = "RichCompare" /\ ~tf.active /\ frame = "apply"
        /\ MatrixLike(sup.kind) /\ sup.kind.type # "Pointer"
        /\ slot \in EqualitySlots)
       => /\ ~RestrictionReported
          /\ (pc = "done" /\ pyerr = <<>> /\ sup.kern # "DRJIT_OP_NOT_IMPLEMENTED")
             => /\ ret.kind = "object"
                /\ heap[ret.id].tp = mask_of(tp)
                /\ heap[ret.id].elems = ExpectedFlat

\* an ordering comparison on a matrix-like flavor has failed with the
\* restriction error
C11_Witness ==
    /\ CompareDone /\ MatrixLike(sup.kind) /\ slot = "Py_LT"
    /\ ret.kind = "nullptr" /\ RestrictionReported
    /\ Len(heap0[cargs[1]].elems) >= 2

\* an equality comparison on a matrix-like flavor has returned a mask
C11_WitnessEq ==
    /\ CompareDone /\ sup.kind.is_matrix /\ slot = "Py_EQ"
    /\ ret.kind = "object" /\ heap[ret.id].tp = mask_of(tp)
    /\ Len(heap[ret.id].elems) >= 2

\* C12 (as stated): == and != on a pointer-valued flavor do not report the
\* comparison-restriction error; only the ordering comparisons on it do.
C12_AsStated ==
    (mode = "RichCompare" /\ ~tf.active /\ sup.kind.type = "Pointer")
    => (RestrictionReported => slot \in OrderingSlots)

-----------------------------------------------------------------------------
\* C19: in the InPlace fallback path with a first operand whose length
\* differs from the result length (it has length 1 and is broadcast), the
\* output is built in one freshly allocated object; while the loop runs, and
\* after it has failed at any index, the first operand holds exactly what it
\* held before the call; only a loop that completed every iteration is
\* followed by the move that puts the result into the first operand.

\* the fallback path of an in-place call found a first operand to broadcast
InPlaceBroadcast ==
    /\ mode = "InPlace" /\ ~tf.active /\ Fallback
    /\ l # <<>> /\ l[1] # lr
    /\ \A k \in 1..Len(l) : l[k] = lr \/ l[k] = 1

C19_MoveAfterLoop ==
    InPlaceBroadcast
    => /\ l[1] = 1 /\ lr > 1
       /\ stat.alloc = 1
       /\ (pc \in {"loop", "finish", "catch"} \/ (pc = "done" /\ ret.kind = "nullptr"))
          => /\ result # o[1] /\ result = Len(heap) /\ result > Len(pre) - 1
             /\ \A k \in 1..Len(cargs) : result # cargs[k]
             /\ heap[o[1]] = pre[o[1]]
             /\ heap[cargs[1]] = heap0[cargs[1]]
       /\ (pc = "done" /\ ret.kind = "object")
          => /\ stat.set_item = lr /\ j = lr
             /\ heap[ret.id].elems = ExpectedFlat
             /\ ~FirstConverted => ret.id = cargs[1]

\* the loop of such a call failed after it had stored at least one element,
\* and the call has returned
C19_Witness ==
    /\ InPlaceBroadcast /\ LoopFailed /\ pc = "done" /\ ret.kind = "nullptr"
    /\ j >= 1 /\ stat.set_item >= 1
    /\ heap[cargs[1]] = heap0[cargs[1]]
    /\ heap[result].elems[1] = ExpectedFlat[1]

-----------------------------------------------------------------------------
\* no apply() is running
ApplyIdle ==
    /\ heap = <<>> /\ cargs = <<>> /\ heap0 = <<>> /\ pre = <<>>
    /\ sup = [kern |-> "NATIVE", shape0 |-> DRJIT_DYNAMIC, kind |-> PlainKind]
    /\ frame = "none" /\ pc = "idle"
    /\ mode = "Normal" /\ op = "" /\ slot = ""
    /\ args = <<>> /\ o = <<>> /\ tp = "" /\ impl = "none" /\ rtype = ""
    /\ result = 0 /\ move = FALSE
    /\ l = <<>> /\ i = <<>> /\ lr = 0 /\ j = 0
    /\ ret = NoRet /\ pyerr = <<>> /\ exc = NoExc /\ tf = NoTf
    /\ stat = NoStat

-----------------------------------------------------------------------------
\* array_traits.h, detail::deepest<Ts...>
\*
\* A type is given by its position in the list and its array_depth_v; the
\* type `void` of the empty list is position 0 and has depth 0.

array_depth_v(ts, t) == IF t = 0 THEN 0 ELSE ts[t]

\* fault of line 348: a later type of equal depth takes precedence
RECURSIVE deepest_prefers_later(_, _)
deepest_prefers_later(ts, k) ==
    IF k > Len(ts) THEN 0
    ELSE LET T0 == k
             T1 == deepest_prefers_later(ts, k + 1)
             D0 == array_depth_v(ts, T0)
             D1 == array_depth_v(ts, T1)
         IN  IF D1 >= D0 \/ D0 = 0 THEN T1 ELSE T0

\* lines 335-349: deepest<Arg, Args...>::type for the list ts[k], ts[k+1], ...
RECURSIVE deepest(_, _)
deepest(ts, k) ==
    IF k > Len(ts) THEN 0
    ELSE LET T0 == k
             T1 == deepest(ts, k + 1)
             D0 == array_depth_v(ts, T0)
             D1 == array_depth_v(ts, T1)
         IN  IF D1 > D0 \/ D0 = 0 THEN T1 ELSE T0

TypeLists == UNION { [1..n -> 0..MaxDepth] : n \in 0..MaxArgs }

DeepestInit ==
    /\ ApplyIdle /\ WalkIdle
    /\ Ts \in TypeLists
    /\ picked = -1

\* the compiler instantiates deepest_t<Ts...>
Instantiate ==
    /\ picked = -1
    /\ picked' = deepest(Ts, 1)
    /\ UNCHANGED <<apply_vars, walk_vars, Ts>>

DeepestNext == Instantiate

DeepestSpec == DeepestInit /\ [][DeepestNext]_vars

HasArray == \E k \in 1..Len(Ts) : Ts[k] > 0

GreatestDepth == maxv([k \in 1..Len(Ts) + 1 |-> IF k > Len(Ts) THEN 0 ELSE Ts[k]])

-----------------------------------------------------------------------------
\* traverse(), traverse_pair(), transform(): the trees
\*
\* A tree is a set of nodes in `nodes`, identity = index.  A node is
\*   array   a Dr.Jit array with ndim == 1 (elems)
\*   nested  a Dr.Jit array with ndim > 1 (kids: its items)
\*   tensor  a Dr.Jit tensor (shape; kids[1]: its flat array)
\*   tuple, list   (kids: the elements)
\*   dict    (keys in insertion order; kids: the values, in the same order)
\*   struct  an instance of a class with DRJIT_STRUCT (keys: the declared
\*           fields; kids: the attribute values)
\*   opaque  anything else

Node(kind, t, keys, kids, shape, elems) ==
    [kind |-> kind, tp |-> t, keys |-> keys, kids |-> kids, shape |-> shape,
     elems |-> elems]

\* ArraySupplement::shape[0] of the nested flavors
static_len(t) == IF t = "Array2f" THEN 2 ELSE DRJIT_DYNAMIC

\* the declared fields of the DRJIT_STRUCT classes
DRJIT_STRUCT(t) == IF t = "Ray" THEN <<"o", "d">> ELSE <<"value">>

is_drjit_type(n) == n.kind \in {"array", "nested", "tensor"}

\* tree values from which the initial node tables are built
Arr(e) == Node("array", "Float", <<>>, <<>>, <<>>, e)
Ten(sh, e) == Node("tensor", "TensorXf", <<>>, <<Arr(e)>>, sh, <<>>)
Opq(v) == Node("opaque", "int", <<>>, <<>>, <<>>, <<v>>)

FlatLeaves == {Arr(<<1, 2>>), Arr(<<3>>)}

NestedLeaves ==
    {Node("nested", "Array2f", <<>>, <<Arr(<<1>>), Arr(<<2>>)>>, <<>>, <<>>)}
    \cup {Node("nested", "ArrayXXf", <<>>, ks, <<>>, <<>>) :
            ks \in UNION {[1..n -> {Arr(<<4, 5>>)}] : n \in 0..MaxItems}}

TensorLeaves == {Ten(<<2>>, <<5, 6>>), Ten(<<>>, <<7>>), Ten(<<1, 2>>, <<8, 9>>)}

LeafTrees == FlatLeaves \cup NestedLeaves \cup TensorLeaves \cup {Opq(9)}

\* what the elements of the containers are drawn from
Items == {Arr(<<1, 2>>), Arr(<<3>>), Ten(<<2>>, <<5, 6>>), Opq(9)}

ItemLists == UNION {[1..n -> Items] : n \in 0..MaxItems}

KeyLists == {<<>>, <<"a">>, <<"a", "b">>, <<"b", "a">>, <<"a", "c">>}

DictTrees ==
    {Node("dict", "dict", ks, vs, <<>>, <<>>) :
        ks \in KeyLists, vs \in ItemLists}

Containers ==
    {Node(c, c, <<>>, ks, <<>>, <<>>) : c \in {"tuple", "list"}, ks \in ItemLists}
    \cup {d \in DictTrees : Len(d.keys) = Len(d.kids)}
    \cup {Node("struct", "Ray", DRJIT_STRUCT("Ray"), ks, <<>>, <<>>) :
            ks \in {v \in ItemLists : Len(v) = 2}}

\* containers of containers
Inner == {c \in Containers : Len(c.kids) = 2 /\ c.kids[1] = Arr(<<1, 2>>)
                             /\ c.kids[2] \in {Arr(<<3>>), Opq(9)}}

Nested2 ==
    {Node(c, c, <<>>, <<x, y>>, <<>>, <<>>) :
        c \in {"tuple", "list"}, x \in Inner, y \in {Arr(<<3>>)}}
    \cup {Node("dict", "dict", <<"k", "m">>, <<Arr(<<3>>), x>>, <<>>, <<>>) : x \in Inner}

Trees == LeafTrees \cup Containers \cup Nested2

\* the second tree of a paired walk
PairedWith(t) ==
    {u \in Trees : u.kind = t.kind \/ u.kind \in {"opaque", "array"}}

\* lay a tree value out in the node table: the children first, then the node
RECURSIVE Build(_, _), BuildKids(_, _, _, _)
BuildKids(ns, ks, k, acc) ==
    IF k > Len(ks) THEN [ns |-> ns, ids |-> acc]
    ELSE LET r == Build(ns, ks[k])
         IN  BuildKids(r.ns, ks, k + 1, Append(acc, r.id))

Build(ns, t) ==
    LET r == BuildKids(ns, t.kids, 1, <<>>)
    IN  [ns |-> Append(r.ns, [t EXCEPT !.kids = r.ids]), id |-> Len(r.ns) + 1]

WalkInit ==
    /\ ApplyIdle /\ DeepestIdle
    /\ \E f \in {"traverse", "traverse_pair", "transform"}, t \in Trees :
       \E u \in (IF f = "traverse_pair" THEN PairedWith(t) ELSE {t}),
          lf \in (IF f = "transform" THEN {"copy", "negate"} ELSE {"none"}) :
        LET b1 == Build(<<>>, t)
            b2 == Build(b1.ns, u)
        IN  /\ fn = f
            /\ leaf_fn = lf
            /\ nodes = IF f = "traverse_pair" THEN b2.ns ELSE b1.ns
            /\ roots = IF f = "traverse_pair" THEN <<b1.id, b2.id>> ELSE <<b1.id>>
    /\ nodes0 = nodes
    /\ stack = <<[h1 |-> roots[1], h2 |-> IF Len(roots) = 2 THEN roots[2] ELSE 0,
                  at |-> 0, res |-> 0]>>
    /\ wpc = "enter"
    /\ visits = <<>> /\ werr = <<>> /\ wexc = NoExc /\ fault = NoFault /\ wret = 0

-----------------------------------------------------------------------------
\* traverse(), traverse_pair(), transform(): what the three walks share

top == stack[Len(stack)]
caller == stack[Len(stack) - 1]
pop(st) == SubSeq(st, 1, Len(st) - 1)

Frame(a, b) == [h1 |-> a, h2 |-> b, at |-> 0, res |-> 0]

\* the (pairs of) nodes of the activations, outermost first
path_of(st) == [k \in 1..Len(st) |-> <<st[k].h1, st[k].h2>>]

\* nb::detail::raise(): a std::exception leaves the try block
raise(what) ==
    /\ wexc' = [t |-> "std", what |-> what]
    /\ wpc' = "unwind"
    /\ werr' = werr
    /\ fault' = [kind |-> "check", what |-> what, path |-> path_of(stack),
                 nvisits |-> Len(visits)]

\* a call into Python failed: nb::python_error with the error as its value
raise_python(cause, nv) ==
    /\ wexc' = [t |-> "python", what |-> <<>>]
    /\ wpc' = "unwind"
    /\ werr' = Append(werr, cause)
    /\ fault' = [kind |-> "python", what |-> cause, path |-> path_of(stack),
                 nvisits |-> nv]

\* the callback threw a C++ exception
raise_cpp(what, nv) ==
    /\ wexc' = [t |-> "std", what |-> what]
    /\ wpc' = "unwind"
    /\ werr' = werr
    /\ fault' = [kind |-> "cpp", what |-> what, path |-> path_of(stack),
                 nvisits |-> nv]

\* the elements a loop of the walk recurses into, in its order
\* (lines 461-480: items of a nested array, elements, dict values, fields)
children_reversed(n) == [k \in 1..Len(n.kids) |-> n.kids[Len(n.kids) + 1 - k]]

children(n) == n.kids

\* d[k] of a dict node, 0 when the key is missing
dict_get(n, k) ==
    IF \E x \in 1..Len(n.keys) : n.keys[x] = k
    THEN n.kids[CHOOSE x \in 1..Len(n.keys) : n.keys[x] = k]
    ELSE 0

\* h[i] / s.item(h, i) / getattr(h, k), 0 when there is no such element
child_at(n, x) == IF x <= Len(n.kids) THEN n.kids[x] ELSE 0

\* `h2[i] = ...`, PyTuple_SET_ITEM, append(), `result[k] = ...`, setattr()
store(ns, f, v) ==
    LET r == ns[f.res]
        x == f.at + 1
    IN  IF r.kind = "list" THEN [ns EXCEPT ![f.res].kids = Append(@, v)]
        ELSE IF r.kind = "dict"
        THEN [ns EXCEPT ![f.res].kids = Append(@, v),
                        ![f.res].keys = Append(@, ns[f.h1].keys[x])]
        ELSE [ns EXCEPT ![f.res].kids[x] = v]

\* a call of the walk returns v to its caller, which (in transform) stores
\* it and goes on with its loop
walk_return(ns, v) ==
    /\ wret' = v
    /\ IF Len(stack) = 1
       THEN /\ stack' = <<>>
            /\ wpc' = "done"
            /\ nodes' = ns
       ELSE /\ stack' = [pop(stack) EXCEPT ![Len(stack) - 1].at = @ + 1]
            /\ wpc' = "loop"
            /\ nodes' = IF fn = "transform" THEN store(ns, caller, v) ELSE ns

\* the callback is invoked on hs; a call that succeeds leaves the node table
\* `after` (in transform it has written its output) and the walk returns v
callback(hs, before, after, v) ==
    \E outcome \in {"ok", "python", "cpp"} :
        /\ visits' = Append(visits, [args |-> hs, ok |-> outcome = "ok",
                                     path |-> path_of(stack)])
        /\ IF outcome = "python"
           THEN raise_python(<<"callback: error">>, Len(visits) + 1)
                /\ nodes' = before
                /\ UNCHANGED <<stack, wret>>
           ELSE IF outcome = "cpp"
           THEN raise_cpp(<<"callback failed">>, Len(visits) + 1)
                /\ nodes' = before
                /\ UNCHANGED <<stack, wret>>
           ELSE /\ UNCHANGED <<werr, wexc, fault>>
                /\ walk_return(after, v)

\* fault of the rethrow: the caller goes on with its loop
after_catch_resumes(st) == IF Len(st) = 0 THEN "done" ELSE "loop"

\* `throw nb::python_error()` at the end of a catch clause
after_catch(st) == IF Len(st) = 0 THEN "done" ELSE "unwind"

\* the text added by the catch clauses
annotation(e, names) ==
    IF e.t = "python"
    THEN <<fn, "(): error encountered while processing">> \o names \o <<"(see above).">>
    ELSE <<fn, "(): error encountered while processing">> \o names \o <<":">> \o e.what

\* lines 482-495, 558-575, 645-658: the catch clauses of one activation
Unwind ==
    /\ wpc = "unwind"
    /\ LET names == IF fn = "traverse_pair"
                    THEN <<nodes[top.h1].tp, nodes[top.h2].tp>>
                    ELSE <<nodes[top.h1].tp>>
       IN  werr' = chain_error(werr, annotation(wexc, names))
    /\ wexc' = IF Len(stack) = 1 THEN NoExc ELSE [t |-> "python", what |-> <<>>]
    /\ stack' = pop(stack)
    /\ wpc' = after_catch(pop(stack))
    /\ UNCHANGED <<apply_vars, deepest_vars, nodes, nodes0, roots, fn, leaf_fn, visits,
                   fault, wret>>

\* how often the loop over node n runs
loop_count(n) ==
    IF n.kind = "nested" /\ static_len(n.tp) # DRJIT_DYNAMIC THEN static_len(n.tp)
    ELSE IF n.kind = "struct" THEN Len(DRJIT_STRUCT(n.tp))
    ELSE Len(n.kids)

\* the walk enters its loop / recurses / leaves a node without a callback
enter_loop == wpc' = "loop" /\ UNCHANGED <<nodes, stack, visits, werr, wexc, fault, wret>>

recurse(a, b) ==
    /\ stack' = Append(stack, Frame(a, b))
    /\ wpc' = "enter"
    /\ UNCHANGED <<nodes, visits, werr, wexc, fault, wret>>

leave(v) == walk_return(nodes, v) /\ UNCHANGED <<visits, werr, wexc, fault>>

-----------------------------------------------------------------------------
\* traverse(), lines 448-496

\* lines 449-481, up to the first recursive call
TraverseEnter ==
    /\ wpc = "enter" /\ fn = "traverse"
    /\ LET n == nodes[top.h1]
       IN  IF n.kind = "tensor" THEN callback(<<n.kids[1]>>, nodes, nodes, 0)
           ELSE IF n.kind = "array" THEN callback(<<top.h1>>, nodes, nodes, 0)
           ELSE IF n.kind = "opaque" THEN leave(0)
           ELSE enter_loop
    /\ UNCHANGED <<apply_vars, deepest_vars, nodes0, roots, fn, leaf_fn>>

\* one step of the loops of lines 461-480
TraverseLoop ==
    /\ wpc = "loop" /\ fn = "traverse"
    /\ LET n == nodes[top.h1]
       IN  IF top.at < loop_count(n)
           THEN recurse(children(n)[top.at + 1], 0)
           ELSE leave(0)
    /\ UNCHANGED <<apply_vars, deepest_vars, nodes0, roots, fn, leaf_fn>>

-----------------------------------------------------------------------------
\* traverse_pair(), lines 498-576

\* fault of lines 520 and 537: lengths are not compared
lengths_mismatch_ignored(len1, len2) == FALSE

\* lines 520 and 537
lengths_mismatch(len1, len2) == len1 # len2

\* fault of line 545: keys are not compared
keys_mismatch_ignored(k1, k2) == FALSE

\* fault of line 545: the keys are compared as sets
keys_mismatch_as_sets(k1, k2) ==
    {k1[x] : x \in 1..Len(k1)} # {k2[x] : x \in 1..Len(k2)}

\* lines 544-545: d.keys() is the list of keys in insertion order, and
\* equal() compares the two lists
keys_mismatch(k1, k2) == k1 # k2

incompatible_lengths(len1, len2) ==
    <<"Incompatible input lengths (", ToString(len1), " and ", ToString(len2), ").">>

\* lines 499-557, up to the first recursive call
PairEnter ==
    /\ wpc = "enter" /\ fn = "traverse_pair"
    /\ LET n1 == nodes[top.h1]
           n2 == nodes[top.h2]
           dyn == static_len(n1.tp) = DRJIT_DYNAMIC
           len1 == IF n1.kind = "nested" /\ ~dyn THEN static_len(n1.tp) ELSE Len(n1.kids)
           len2 == IF n1.kind = "nested" /\ ~dyn THEN len1 ELSE Len(n2.kids)
       IN  IF n1.tp # n2.tp THEN raise(<<"Mismatched input types.">>)
                                  /\ UNCHANGED <<nodes, stack, visits, wret>>
           ELSE IF n1.kind = "tensor"
           THEN callback(<<n1.kids[1], n2.kids[1]>>, nodes, nodes, 0)
           ELSE IF n1.kind = "array" THEN callback(<<top.h1, top.h2>>, nodes, nodes, 0)
           ELSE IF n1.kind \in {"nested", "tuple", "list"}
           THEN IF lengths_mismatch(len1, len2)
                THEN raise(incompatible_lengths(len1, len2))
                     /\ UNCHANGED <<nodes, stack, visits, wret>>
                ELSE enter_loop
           ELSE IF n1.kind = "dict"
           THEN IF keys_mismatch(n1.keys, n2.keys)
                THEN raise(<<"Dictionaries have mismatched keys.">>)
                     /\ UNCHANGED <<nodes, stack, visits, wret>>
                ELSE enter_loop
           ELSE IF n1.kind = "struct" THEN enter_loop
           ELSE leave(0)
    /\ UNCHANGED <<apply_vars, deepest_vars, nodes0, roots, fn, leaf_fn>>

\* one step of the loops of lines 523-526, 539-540, 547-548, 552-555
PairLoop ==
    /\ wpc = "loop" /\ fn = "traverse_pair"
    /\ LET n1 == nodes[top.h1]
           n2 == nodes[top.h2]
           x == top.at + 1
           a == child_at(n1, x)
           b == IF n1.kind = "dict" THEN dict_get(n2, n1.keys[x]) ELSE child_at(n2, x)
       IN  IF top.at >= loop_count(n1) THEN leave(0)
           ELSE IF a = 0 \/ b = 0
           THEN raise_python(<<"item access: error">>, Len(visits))
                /\ UNCHANGED <<nodes, stack, visits, wret>>
           ELSE recurse(a, b)
    /\ UNCHANGED <<apply_vars, deepest_vars, nodes0, roots, fn, leaf_fn>>

-----------------------------------------------------------------------------
\* transform(), lines 582-659

\* the callback of transform: what it writes into its second argument
leaf(e) == IF leaf_fn = "negate" THEN [q \in 1..Len(e) |-> 0 - e[q]] ELSE e

zeros(n) == [k \in 1..n |-> 0]

\* nb::inst_alloc_zero(t2): a zero-initialised instance of the flavor of n
\* (an array without elements; a tensor with an empty shape)
inst_alloc_zero(n) == Node(n.kind, n.tp, <<>>, <<>>, <<>>, <<>>)

\* the empty container that transform() fills for container n
\* (lines 619, 625, 630, 637)
new_container(n) ==
    IF n.kind = "tuple" THEN Node("tuple", n.tp, <<>>, zeros(Len(n.kids)), <<>>, <<>>)
    ELSE IF n.kind = "struct"
    THEN Node("struct", n.tp, DRJIT_STRUCT(n.tp), zeros(Len(DRJIT_STRUCT(n.tp))), <<>>, <<>>)
    ELSE Node(n.kind, n.tp, <<>>, <<>>, <<>>, <<>>)

\* lines 583-644, up to the first recursive call
TransformEnter ==
    /\ wpc = "enter" /\ fn = "transform"
    /\ LET n == nodes[top.h1]
           new == Len(nodes) + 1
       IN  IF n.kind = "array"
           THEN LET ns == Append(nodes, inst_alloc_zero(n))
                IN  callback(<<top.h1, new>>, ns,
                             [ns EXCEPT ![new].elems = leaf(n.elems)], new)
           ELSE IF n.kind = "tensor"
           THEN LET a1 == n.kids[1]
                    ns == nodes \o <<inst_alloc_zero(nodes[a1]),
                                     [inst_alloc_zero(n) EXCEPT !.kids = <<new>>]>>
                IN  callback(<<a1, new>>, ns,
                             [ns EXCEPT ![new].elems = leaf(nodes[a1].elems)], new + 1)
           ELSE IF n.kind = "nested"
           THEN /\ nodes' = Append(nodes, [inst_alloc_zero(n) EXCEPT
                                              !.kids = zeros(loop_count(n))])
                /\ stack' = [stack EXCEPT ![Len(stack)].res = new]
                /\ wpc' = "loop"
                /\ UNCHANGED <<visits, werr, wexc, fault, wret>>
           ELSE IF n.kind = "opaque"
           THEN leave(top.h1)
           ELSE /\ nodes' = Append(nodes, new_container(n))
                /\ stack' = [stack EXCEPT ![Len(stack)].res = new]
                /\ wpc' = "loop"
                /\ UNCHANGED <<visits, werr, wexc, fault, wret>>
    /\ UNCHANGED <<apply_vars, deepest_vars, nodes0, roots, fn, leaf_fn>>

\* one step of the loops of lines 607-610, 620-622, 626-627, 631-632, 638-639
TransformLoop ==
    /\ wpc = "loop" /\ fn = "transform"
    /\ LET n == nodes[top.h1]
       IN  IF top.at < loop_count(n)
           THEN recurse(children(n)[top.at + 1], 0)
           ELSE leave(top.res)
    /\ UNCHANGED <<apply_vars, deepest_vars, nodes0, roots, fn, leaf_fn>>

-----------------------------------------------------------------------------
WalkNext ==
    \/ TraverseEnter
    \/ TraverseLoop
    \/ PairEnter
    \/ PairLoop
    \/ TransformEnter
    \/ TransformLoop
    \/ Unwind

WalkSpec == WalkInit /\ [][WalkNext]_vars

-----------------------------------------------------------------------------
\* Vocabulary of the properties of the walks

WalkReturned == wpc = "done" /\ werr = <<>>
WalkFailed == fault # NoFault
NoCallbackFailure == \A k \in 1..Len(visits) : visits[k].ok

KeySet(n) == {n.keys[x] : x \in 1..Len(n.keys)}

\* the array leaves below node h, depth first and left to right: the flat
\* array of a tensor, the innermost arrays of a nested array, the array itself
RECURSIVE Leaves(_, _), LeavesOf(_, _, _)
LeavesOf(ns, ks, k) ==
    IF k > Len(ks) THEN <<>> ELSE Leaves(ns, ks[k]) \o LeavesOf(ns, ks, k + 1)

Leaves(ns, h) ==
    LET n == ns[h]
    IN  IF n.kind = "array" THEN <<h>>
        ELSE IF n.kind = "opaque" THEN <<>>
        ELSE LeavesOf(ns, n.kids, 1)

\* C16: traverse invokes the visitor on the array leaves of the tree, each
\* exactly once, depth first and left to right (the flat array of a tensor,
\* the innermost arrays of a nested array, every element of a tuple or list,
\* every value of a mapping, every declared field of an aggregate); it never
\* passes an opaque value to the visitor and creates or modifies no node.
C16_TraverseVisitsLeaves ==
    fn = "traverse"
    => LET all == Leaves(nodes0, roots[1])
       IN  /\ nodes = nodes0
           /\ Len(visits) <= Len(all)
           /\ \A k \in 1..Len(visits) :
                /\ visits[k].args = <<all[k]>>
                /\ nodes0[visits[k].args[1]].kind = "array"
           /\ WalkReturned => Len(visits) = Len(all)
           /\ (wpc = "done" /\ NoCallbackFailure) => WalkReturned

\* the walk over a two-level tree with a dict has returned after visiting
\* three leaves
C16_Witness ==
    /\ fn = "traverse" /\ WalkReturned /\ Len(visits) = 3
    /\ nodes0[roots[1]].kind = "dict"
    /\ \E x \in 1..2 : nodes0[nodes0[roots[1]].kids[x]].kind \in {"tuple", "list", "struct"}

\* the paired walk was called on two mappings whose values are arrays
PairOfDicts ==
    /\ fn = "traverse_pair"
    /\ \A r \in 1..2 :
        /\ nodes0[roots[r]].kind = "dict"
        /\ \A x \in 1..Len(nodes0[roots[r]].kids) :
             nodes0[nodes0[roots[r]].kids[x]].kind = "array"

\* the visitor was invoked exactly once per key, on the two values of the key
VisitedByKey ==
    LET d1 == nodes0[roots[1]]
        d2 == nodes0[roots[2]]
    IN  /\ Len(visits) = Cardinality(KeySet(d1))
        /\ \A key \in KeySet(d1) :
             \E k \in 1..Len(visits) :
                visits[k].args = <<dict_get(d1, key), dict_get(d2, key)>>

Mismatch(q) ==
    LET n1 == nodes0[q[1]]
        n2 == nodes0[q[2]]
    IN  \/ n1.tp # n2.tp
        \/ n1.kind \in {"tuple", "list", "nested"} /\ Len(n1.kids) # Len(n2.kids)
        \/ n1.kind = "dict" /\ KeySet(n1) # KeySet(n2)

\* the two trees have the same types, lengths and key sets at every level
RECURSIVE SameStructure(_, _)
SameStructure(a, b) ==
    LET n1 == nodes0[a]
        n2 == nodes0[b]
    IN  /\ ~Mismatch(<<a, b>>)
        /\ n1.kind \in {"tuple", "list", "nested", "struct"}
           => \A x \in 1..Len(n1.kids) : SameStructure(n1.kids[x], n2.kids[x])
        /\ n1.kind = "dict"
           => \A x \in 1..Len(n1.keys) :
                SameStructure(n1.kids[x], dict_get(n2, n1.keys[x]))

\* C14: traverse_pair compares types, lengths and keys of the two subtrees
\* at a level before it descends or visits beneath it: no pair is visited
\* and no recursive call is made beneath a level whose subtrees mismatch; a
\* mismatch ends in an error; two mappings with differing keys at the root
\* fail with no pair visited; and a walk that returns normally has walked
\* two trees of the same structure.
C14_CheckBeforeDescent ==
    fn = "traverse_pair"
    => /\ \A k \in 1..Len(visits) :
            \A x \in 1..Len(visits[k].path) : ~Mismatch(visits[k].path[x])
       /\ \A x \in 1..Len(stack) :
            (x < Len(stack) \/ wpc = "loop") => ~Mismatch(<<stack[x].h1, stack[x].h2>>)
       /\ (wpc = "done" /\ Mismatch(<<roots[1], roots[2]>>))
          => visits = <<>> /\ werr # <<>>
       /\ WalkReturned => SameStructure(roots[1], roots[2])
       /\ fault.kind = "check" => Len(visits) = fault.nvisits

\* a length mismatch one level down was found after an earlier sibling pair
\* had been visited, and the walk has failed
C14_Witness ==
    /\ fn = "traverse_pair" /\ wpc = "done" /\ fault.kind = "check"
    /\ Len(fault.path) = 2 /\ Mismatch(fault.path[2])
    /\ Len(visits) = 1 /\ werr # <<>>

-----------------------------------------------------------------------------
\* node b of the current table mirrors node a of the caller's tree: the same
\* kind, type, keys, lengths, shape and contents at every level, an opaque
\* value being the very same object
RECURSIVE Equivalent(_, _)
Equivalent(a, b) ==
    LET n1 == nodes0[a]
        n2 == nodes[b]
    IN  IF n1.kind = "opaque" THEN a = b
        ELSE /\ b > Len(nodes0)
             /\ n2.kind = n1.kind /\ n2.tp = n1.tp
             /\ n2.keys = n1.keys /\ n2.shape = n1.shape /\ n2.elems = n1.elems
             /\ Len(n2.kids) = Len(n1.kids)
             /\ \A x \in 1..Len(n1.kids) :
                  n2.kids[x] # 0 /\ Equivalent(n1.kids[x], n2.kids[x])

InputUnmodified == \A x \in 1..Len(nodes0) : nodes[x] = nodes0[x]

\* C15 (as stated): transform with the identity leaf function returns a tree
\* of the same structure whose array leaves are equivalent to the input's,
\* opaque leaves being passed through as the same object, and leaves the
\* input tree unmodified.
C15_AsStated ==
    (fn = "transform" /\ leaf_fn = "copy" /\ WalkReturned)
    => Equivalent(roots[1], wret) /\ InputUnmodified

\* C20 (as stated): transform applied to a tensor leaf returns a tensor with
\* the shape vector of the input tensor, whose flat array is the leaf
\* function's output for the input's flat array.
C20_AsStated ==
    (fn = "transform" /\ nodes0[roots[1]].kind = "tensor" /\ WalkReturned)
    => LET t1 == nodes0[roots[1]]
           t2 == nodes[wret]
       IN  /\ t2.kind = "tensor" /\ t2.tp = t1.tp
           /\ nodes[t2.kids[1]].elems = leaf(nodes0[t1.kids[1]].elems)
           /\ t2.shape = t1.shape

\* what a catch clause at the level of the pair q has to name
Named(msg, q) ==
    /\ Contains(msg, nodes0[q[1]].tp)
    /\ fn = "traverse_pair" => Contains(msg, nodes0[q[2]].tp)

\* C18: once the visitor or a structural check has failed during traverse or
\* traverse_pair, the visitor is not invoked again and the walk only
\* unwinds; every enclosing recursion level adds one annotation naming the
\* type(s) it was processing, innermost first, on top of the root cause,
\* which stays the first link of the error that reaches the caller.
C18_WalkAborts ==
    (fn \in {"traverse", "traverse_pair"} /\ WalkFailed)
    => LET d == Len(fault.path)
           caught == d - Len(stack)
           base == IF fault.kind = "python" THEN 1 ELSE 0
       IN  /\ wpc \in {"unwind", "done"}
           /\ wpc = "done" <=> stack = <<>>
           /\ Len(visits) = fault.nvisits
           /\ \A x \in 1..Len(stack) : fault.path[x] = <<stack[x].h1, stack[x].h2>>
           /\ Len(werr) = base + caught
           /\ fault.kind = "python" => werr[1] = fault.what
           /\ (fault.kind # "python" /\ caught >= 1) => ContainsRun(werr[1], fault.what)
           /\ \A k \in 1..caught : Named(werr[base + k], fault.path[d + 1 - k])
           /\ wpc = "done" => wret = 0 /\ wexc = NoExc

\* the visitor failed three levels down in a paired walk, after an earlier
\* pair had been visited, and the error has reached the caller
C18_Witness ==
    /\ fn = "traverse_pair" /\ wpc = "done" /\ fault.kind = "python"
    /\ Len(fault.path) = 3 /\ Len(werr) = 4 /\ Len(visits) = 2
    /\ ~visits[2].ok

-----------------------------------------------------------------------------
\* Vocabulary of the nested-call properties

\* an incompatible-size error has been raised or reported
SizeErrorReported ==
    \/ SizeErrorText(exc.what)
    \/ \E x \in 1..Len(pyerr) : SizeErrorText(pyerr[x])

\* the nested flat apply() has been called and apply_tensor() has not yet
\* wrapped its result
InNestedCall == tf.active /\ (frame = "nested" \/ pc = "t_wrap")

\* C21: whenever the shapes were reconciled, every flat array handed to the
\* nested flat apply has as many elements as the common shape, or one
\* element for a rank-0 operand, and the nested apply never raises the
\* incompatible-size error; the nested call of an InPlace operation runs in
\* Normal mode, never moves into or builds its output in an operand, and
\* leaves every object of the caller as it was.
C21_NestedCallWellFormed ==
    /\ InNestedCall
       => /\ \A k \in 1..Len(args) :
               \/ Len(heap[args[k]].elems) = prod(tf.shape)
               \/ tf.shapes[k] = <<>> /\ Len(heap[args[k]].elems) = 1
          /\ args = tf.arrays
          /\ mode = IF tf.mode = "InPlace" THEN "Normal" ELSE tf.mode
          /\ tf.mode = "InPlace"
             => /\ ~move
                /\ \A k \in 1..Len(args) : result # args[k] /\ result # o[k]
                /\ \A x \in 1..Len(heap0) : heap[x] = heap0[x]
    /\ tf.active => ~SizeErrorReported

\* the nested call of an in-place operation on a broadcast operand and a
\* rank-0 operand has returned its result
C21_Witness ==
    /\ tf.active /\ pc = "t_wrap" /\ tf.mode = "InPlace" /\ ret.kind = "object"
    /\ tf.shapes[1] # tf.shape /\ prod(tf.shape) = 2
    /\ Len(heap[ret.id].elems) = 2 /\ Fallback
    /\ Len(heap[args[1]].elems) = 2

\* C22 (as stated): for every operand shape that passed the compatibility
\* check (extents of 0 included), tensor_broadcast never divides by zero and
\* every gather index it produces lies in [0, product of the operand's own
\* shape).
C22_AsStated ==
    /\ pc # "crashed"
    /\ (tf.active /\ pc = "t_bcast")
       => \A k \in 1..Len(tf.shapes) :
            LET src == tf.shapes[k]
                dst == tf.shape
            IN  /\ ~divides_by_zero(src, dst)
                /\ ~broadcast_skipped(src, dst)
                   => \A q \in {0, 1} :
                        LET index == broadcast_index(arange(prod(dst)), prod(dst),
                                                     src, dst, 1, q)
                        IN  \A t \in 1..Len(index) :
                                index[t] >= 0 /\ index[t] < prod(src)

====
